---------------------------- MODULE Spec2Model ----------------------------
(***************************************************************************)
(* simpleserver (src/server.go, the revision with TLS support, lines       *)
(* 137-285): a functional-option configuration of an HTTP(S) server, Run,  *)
(* Shutdown and the two blocking shutdown triggers.                        *)
(*                                                                         *)
(* Durations are counted in seconds; the clock `now` ticks in seconds.     *)
(* An http.Server of the standard library is an object of the heap `srvs`: *)
(* object 0 is the field Server.srv (an http.Server VALUE embedded in the  *)
(* struct, line 162), and object k > 0 is the http.Server that the k-th    *)
(* call of Run builds in its local variable srv (line 272).                *)
(***************************************************************************)
EXTENDS Integers, Sequences, FiniteSets, TLC

\* ----------------------------------------------------------------- bounds
MaxOpts  == 2      \* options passed to NewServer (SpecNew)
MaxRuns  == 2      \* calls of Run in one behaviour
MaxConns == 2      \* connections a client opens in one behaviour
MaxTime  == 2      \* seconds the clock runs

\* ------------------------------------------------------ program constants
DefaultPort            == 8080
DefaultShutdownTimeout == 15
DefaultReadTimeout     == 15
DefaultWriteTimeout    == 15
IdleTimeout            == 60

VARIABLES
    opts,      \* NewServer's argument: the sequence of options
    idx,       \* NewServer's loop position in opts
    pcNew,     \* "loop" while NewServer runs, "returned" after
    s,         \* the Server struct (its srv field is heap object 0)
    srvs,      \* heap of http.Server objects
    conns,     \* connections: state and the http.Server that accepted them
    pcRun,     \* the goroutine calling Run: "idle", "serving", "returned"
    runs,      \* calls of Run so far
    runSrv,    \* Run's local variable srv: the heap object it serves on
    runErr,    \* what the last Run returned
    sd,        \* per caller of Shutdown: the call's frame and its history
    trig,      \* per trigger function: position and return value
    sigChan,   \* WithSigShutdown's channel c (capacity 1): signals buffered
    fired,     \* per trigger: the signal was delivered / the context cancelled
    now        \* the clock

newVars  == <<opts, idx, pcNew, s>>
lifeVars == <<srvs, conns, pcRun, runs, runSrv, runErr, sd, trig, sigChan, fired, now>>
vars     == <<opts, idx, pcNew, s, srvs, conns, pcRun, runs, runSrv, runErr,
              sd, trig, sigChan, fired, now>>

\* ------------------------------------------------------------- the options
\* An option is the closure a With... function returns; it is kept as the
\* function's name and arguments and run by ApplyOpt.
Ports     == {DefaultPort, 9090}
Addrs     == {"", "127.0.0.1"}
\* a handler is a sequence of names: <<>> is nil, <<"h1">> a plain handler
Handlers  == {<<"h1">>, <<"h2">>}
Durations == {0, 1, DefaultShutdownTimeout}
Files     == {"", "cert.pem", "key.pem"}
CorsOpts  == {"allow-example.com"}

AllOpts ==
    [name : {"WithPort"}, port : Ports]
    \cup [name : {"WithAddr"}, addr : Addrs]
    \cup [name : {"WithHandler"}, h : Handlers]
    \cup [name : {"WithCorsHandler"}, h : Handlers, c : CorsOpts]
    \cup [name : {"WithReadTimeout", "WithWriteTimeout", "WithShutdownTimeout"},
          t : Durations]
    \cup [name : {"WithTLS"}, certFile : Files, keyFile : Files]

WithTLS(srv, certFile, keyFile) ==
    [srv EXCEPT !.CertFile = certFile, !.KeyFile = keyFile]

WithShutdownTimeout(srv, t) == [srv EXCEPT !.ShutdownTimeout = t]

WithPort(srv, port) == [srv EXCEPT !.Port = port]

WithAddr(srv, addr) == [srv EXCEPT !.Addr = addr]

WithHandler(srv, h) == [srv EXCEPT !.Handler = h]

WithWriteTimeout(srv, t) == [srv EXCEPT !.WriteTimeout = t]

\* a copy-and-paste slip: the read-timeout option writing the write timeout
WithReadTimeout_Slip(srv, t) == [srv EXCEPT !.WriteTimeout = t]

WithReadTimeout(srv, t) == [srv EXCEPT !.ReadTimeout = t]

\* cors.New(c).Handler(h): a new handler wrapping h with the policy c
CorsWrap(c, h) == <<"cors", c>> \o h

WithCorsHandler(srv, h, c) == [srv EXCEPT !.Handler = CorsWrap(c, h)]

\* opt(s): run the closure on the struct
ApplyOpt(o, srv) ==
    CASE o.name = "WithTLS"             -> WithTLS(srv, o.certFile, o.keyFile)
      [] o.name = "WithShutdownTimeout" -> WithShutdownTimeout(srv, o.t)
      [] o.name = "WithPort"            -> WithPort(srv, o.port)
      [] o.name = "WithAddr"            -> WithAddr(srv, o.addr)
      [] o.name = "WithHandler"         -> WithHandler(srv, o.h)
      [] o.name = "WithWriteTimeout"    -> WithWriteTimeout(srv, o.t)
      [] o.name = "WithReadTimeout"     -> WithReadTimeout(srv, o.t)
      [] o.name = "WithCorsHandler"     -> WithCorsHandler(srv, o.h, o.c)

\* The struct literal of NewServer: the fields it names, and Go's zero value
\* for the others (nil Handler, empty CertFile and KeyFile, a zero http.Server).
NewServerLiteral ==
    [Port            |-> DefaultPort,
     Addr            |-> "",
     Handler         |-> <<>>,
     WriteTimeout    |-> DefaultWriteTimeout,
     ReadTimeout     |-> DefaultReadTimeout,
     CertFile        |-> "",
     KeyFile         |-> "",
     ShutdownTimeout |-> DefaultShutdownTimeout,
     srv             |-> 0]

\* one iteration of `for _, opt := range opts { opt(s) }`
NewServerStep ==
    /\ pcNew = "loop"
    /\ idx <= Len(opts)
    /\ s' = ApplyOpt(opts[idx], s)
    /\ idx' = idx + 1
    /\ UNCHANGED <<opts, pcNew>>
    /\ UNCHANGED lifeVars

\* the loop is over: return s
NewServerReturn ==
    /\ pcNew = "loop"
    /\ idx > Len(opts)
    /\ pcNew' = "returned"
    /\ UNCHANGED <<opts, idx, s>>
    /\ UNCHANGED lifeVars

\* ------------------------------------------------- the http.Server objects
SrvIds   == 0 .. MaxRuns
ConnIds  == 1 .. MaxConns
Callers  == {"direct", "sig", "ctx"}
Triggers == {"sig", "ctx"}

\* the zero value of http.Server: what Server.srv holds from construction on
ZeroHttpServer ==
    [inShutdown |-> FALSE, listening |-> FALSE, transport |-> "none",
     Addr |-> <<"", 0>>, Handler |-> <<>>,
     WriteTimeout |-> 0, ReadTimeout |-> 0, IdleTimeout |-> 0]

\* fmt.Sprintf("%s:%d", s.Addr, s.Port)
SprintfAddr(addr, port) == <<addr, port>>

\* the composite literal of Run: srv := &http.Server{...}
RunHttpServer(srv) ==
    [ZeroHttpServer EXCEPT
        !.Addr         = SprintfAddr(srv.Addr, srv.Port),
        !.WriteTimeout = srv.WriteTimeout,
        !.ReadTimeout  = srv.ReadTimeout,
        !.IdleTimeout  = IdleTimeout,
        !.Handler      = srv.Handler]

\* a slip: TLS as soon as one of the two paths is given
UseTLS_Either(srv) == srv.CertFile /= "" \/ srv.KeyFile /= ""

\* Run's test before ListenAndServeTLS
UseTLS(srv) == srv.CertFile /= "" /\ srv.KeyFile /= ""

\* The heap object Run serves on: the fresh http.Server of its local
\* variable srv, never the field s.srv.
RunObject == runs + 1

\* The heap object Shutdown stops: the field s.srv.
ShutdownObject == s.srv

\* net/http ListenAndServe(TLS): a server already shut down refuses to
\* listen; otherwise the bind (and the loading of the TLS files) succeeds
\* or fails.
ListenOutcome(obj, ok) ==
    IF obj.inShutdown THEN "ErrServerClosed"
    ELSE IF ok THEN "listening" ELSE "ListenError"

\* net/http closeIdleConns: close the idle connections of object k
CloseIdle(cs, k) ==
    [c \in ConnIds |->
        IF cs[c].st = "idle" /\ cs[c].on = k
        THEN [cs[c] EXCEPT !.st = "closed"] ELSE cs[c]]

\* net/http closeIdleConns's result: no connection of object k is in a request
Quiescent(cs, k) == \A c \in ConnIds : ~(cs[c].st = "active" /\ cs[c].on = k)

InFlight == {c \in ConnIds : conns[c].st = "active"}

\* --------------------------------------------------------------------- Run
RunCall ==
    /\ pcNew = "returned"
    /\ pcRun \in {"idle", "returned"}
    /\ runs < MaxRuns
    /\ \E ok \in BOOLEAN :
         LET k   == RunObject
             obj == [RunHttpServer(s) EXCEPT
                       !.transport = IF UseTLS(s) THEN "tls" ELSE "plain"]
             out == ListenOutcome(obj, ok)
         IN  /\ srvs' = [srvs EXCEPT ![k] =
                           [obj EXCEPT !.listening = (out = "listening")]]
             /\ pcRun' = IF out = "listening" THEN "serving" ELSE "returned"
             /\ runErr' = IF out = "listening" THEN "none" ELSE out
             /\ runSrv' = k
    /\ runs' = runs + 1
    /\ UNCHANGED <<conns, sd, trig, sigChan, fired, now>>
    /\ UNCHANGED newVars

\* Serve returns: its server was shut down (ErrServerClosed), or Accept
\* failed for good; ListenAndServe's deferred Close closes the listener.
RunServeReturnWith(acceptErr) ==
    /\ pcRun = "serving"
    /\ acceptErr \/ srvs[runSrv].inShutdown
    /\ pcRun' = "returned"
    /\ runErr' = IF srvs[runSrv].inShutdown
                 THEN "ErrServerClosed" ELSE "AcceptError"
    /\ srvs' = [srvs EXCEPT ![runSrv].listening = FALSE]
    /\ UNCHANGED <<conns, runs, runSrv, sd, trig, sigChan, fired, now>>
    /\ UNCHANGED newVars

RunServeReturn == \E acceptErr \in BOOLEAN : RunServeReturnWith(acceptErr)

\* ------------------------------------------------------------- connections
\* The listener of the serving http.Server accepts a connection, whose
\* request goes to the handler.
Accept(c) ==
    /\ pcRun = "serving"
    /\ srvs[runSrv].listening
    /\ conns[c].st = "none"
    /\ \A d \in ConnIds : d < c => conns[d].st /= "none"
    /\ conns' = [conns EXCEPT ![c] = [st |-> "active", on |-> runSrv]]
    /\ UNCHANGED <<srvs, pcRun, runs, runSrv, runErr, sd, trig, sigChan, fired, now>>
    /\ UNCHANGED newVars

\* The handler returns: the connection goes idle (keep-alive), or is closed
\* when its http.Server is shutting down.
Finish(c) ==
    /\ conns[c].st = "active"
    /\ conns' = [conns EXCEPT ![c].st =
                   IF srvs[conns[c].on].inShutdown THEN "closed" ELSE "idle"]
    /\ UNCHANGED <<srvs, pcRun, runs, runSrv, runErr, sd, trig, sigChan, fired, now>>
    /\ UNCHANGED newVars

\* An idle connection is closed by the client or by the idle timeout.
ConnClose(c) ==
    /\ conns[c].st = "idle"
    /\ conns' = [conns EXCEPT ![c].st = "closed"]
    /\ UNCHANGED <<srvs, pcRun, runs, runSrv, runErr, sd, trig, sigChan, fired, now>>
    /\ UNCHANGED newVars

\* ---------------------------------------------------------------- Shutdown
\* a slip: the context built without the configured timeout
ShutdownDeadline_NoTimeout == now

\* context.WithTimeout(context.Background(), s.ShutdownTimeout)
ShutdownDeadline == now + s.ShutdownTimeout

\* Shutdown's entry, by caller p: the context with its deadline, then the
\* start of http.Server.Shutdown on ShutdownObject (inShutdown is set and
\* the object's listeners are closed). The frame records, for the
\* properties, which Run was serving and which requests were in flight.
ShutdownEnter(p) ==
    /\ sd' = [sd EXCEPT ![p] =
                [pc       |-> "shutdown",
                 deadline |-> ShutdownDeadline,
                 result   |-> "none",
                 run      |-> IF pcRun = "serving" THEN runs ELSE 0,
                 inflight |-> InFlight,
                 late     |-> FALSE,
                 calls    |-> sd[p].calls + 1]]
    /\ srvs' = [srvs EXCEPT ![ShutdownObject].inShutdown = TRUE,
                            ![ShutdownObject].listening  = FALSE]

\* `return s.Shutdown()` of a trigger function: it returns what Shutdown did
TriggerReturn(r) == r

\* http.Server.Shutdown's loop: close the idle connections; return nil when
\* none is left in a request, the context's error when the deadline has
\* passed, and poll again otherwise. A trigger function returns with it.
ShutdownPoll(p) ==
    /\ sd[p].pc = "shutdown"
    /\ LET k    == ShutdownObject
           res  == IF Quiescent(conns, k) THEN "nil"
                   ELSE IF now >= sd[p].deadline THEN "DeadlineExceeded"
                   ELSE "none"
       IN  /\ conns' = CloseIdle(conns, k)
           /\ sd' = IF res = "none" THEN sd
                    ELSE [sd EXCEPT ![p].pc = "returned", ![p].result = res,
                                    ![p].late = (now >= sd[p].deadline)]
           /\ trig' = IF res /= "none" /\ p \in Triggers
                      THEN [trig EXCEPT ![p] = [pc  |-> "returned",
                                                ret |-> TriggerReturn(res)]]
                      ELSE trig
    /\ UNCHANGED <<srvs, pcRun, runs, runSrv, runErr, sigChan, fired, now>>
    /\ UNCHANGED newVars

\* a direct call of s.Shutdown()
DirectCall ==
    /\ pcNew = "returned"
    /\ sd["direct"].pc = "idle"
    /\ ShutdownEnter("direct")
    /\ UNCHANGED <<conns, pcRun, runs, runSrv, runErr, trig, sigChan, fired, now>>
    /\ UNCHANGED newVars

\* ---------------------------------------------------------------- triggers
\* WithSigShutdown is called: c := make(chan os.Signal, 1); signal.Notify(c, sig)
SigRegister ==
    /\ pcNew = "returned"
    /\ trig["sig"].pc = "idle"
    /\ trig' = [trig EXCEPT !["sig"].pc = "waiting"]
    /\ UNCHANGED <<srvs, conns, pcRun, runs, runSrv, runErr, sd, sigChan, fired, now>>
    /\ UNCHANGED newVars

\* The OS delivers the registered signal: Notify's send into c, dropped when
\* c is full. The registration is never undone.
SignalDeliver ==
    /\ trig["sig"].pc /= "idle"
    /\ sigChan < 1
    /\ sigChan' = sigChan + 1
    /\ fired' = [fired EXCEPT !["sig"] = TRUE]
    /\ UNCHANGED <<srvs, conns, pcRun, runs, runSrv, runErr, sd, trig, now>>
    /\ UNCHANGED newVars

\* `<-c` can proceed
SigReady == sigChan > 0

\* `<-c` returns and WithSigShutdown calls s.Shutdown()
SigReceive ==
    /\ trig["sig"].pc = "waiting"
    /\ SigReady
    /\ sigChan' = IF sigChan > 0 THEN sigChan - 1 ELSE 0
    /\ trig' = [trig EXCEPT !["sig"].pc = "shutdown"]
    /\ ShutdownEnter("sig")
    /\ UNCHANGED <<conns, pcRun, runs, runSrv, runErr, fired, now>>
    /\ UNCHANGED newVars

\* WithContextShutdown is called and blocks on ctx.Done()
CtxCall ==
    /\ pcNew = "returned"
    /\ trig["ctx"].pc = "idle"
    /\ trig' = [trig EXCEPT !["ctx"].pc = "waiting"]
    /\ UNCHANGED <<srvs, conns, pcRun, runs, runSrv, runErr, sd, sigChan, fired, now>>
    /\ UNCHANGED newVars

\* the owner of the context cancels it
CtxCancel ==
    /\ pcNew = "returned"
    /\ ~fired["ctx"]
    /\ fired' = [fired EXCEPT !["ctx"] = TRUE]
    /\ UNCHANGED <<srvs, conns, pcRun, runs, runSrv, runErr, sd, trig, sigChan, now>>
    /\ UNCHANGED newVars

\* a trigger that does not wait for its context
CtxReady_NoWait == TRUE

\* `<-ctx.Done()` can proceed
CtxReady == fired["ctx"]

\* `<-ctx.Done()` returns and WithContextShutdown calls s.Shutdown()
CtxReceive ==
    /\ trig["ctx"].pc = "waiting"
    /\ CtxReady
    /\ trig' = [trig EXCEPT !["ctx"].pc = "shutdown"]
    /\ ShutdownEnter("ctx")
    /\ UNCHANGED <<conns, pcRun, runs, runSrv, runErr, sigChan, fired, now>>
    /\ UNCHANGED newVars

\* ------------------------------------------------------------------- clock
\* A Shutdown whose loop can return does so before the clock moves: the
\* loop's check takes no measurable time.
Urgent == \E p \in Callers :
             /\ sd[p].pc = "shutdown"
             /\ Quiescent(conns, ShutdownObject) \/ now >= sd[p].deadline

Tick ==
    /\ pcNew = "returned"
    /\ now < MaxTime
    /\ ~Urgent
    /\ now' = now + 1
    /\ UNCHANGED <<srvs, conns, pcRun, runs, runSrv, runErr, sd, trig, sigChan, fired>>
    /\ UNCHANGED newVars

\* ---------------------------------------------------------- specifications
LifeInit ==
    /\ srvs = [k \in SrvIds |-> ZeroHttpServer]
    /\ conns = [c \in ConnIds |-> [st |-> "none", on |-> 0]]
    /\ pcRun = "idle"
    /\ runs = 0
    /\ runSrv = 0
    /\ runErr = "none"
    /\ sd = [p \in Callers |->
               [pc |-> "idle", deadline |-> -1, result |-> "none", run |-> 0,
                inflight |-> {}, late |-> FALSE, calls |-> 0]]
    /\ trig = [t \in Triggers |-> [pc |-> "idle", ret |-> "none"]]
    /\ sigChan = 0
    /\ fired = [t \in Triggers |-> FALSE]
    /\ now = 0

\* the option lists the lifecycle is explored with
LifeOpts ==
    {<<>>}
    \cup {<<[name |-> "WithTLS", certFile |-> c, keyFile |-> k]>> :
            c \in {"", "cert.pem"}, k \in {"", "key.pem"}}
    \cup {<<[name |-> "WithShutdownTimeout", t |-> d]>> : d \in {0, 1}}

RECURSIVE SeqsUpTo(_, _)
SeqsUpTo(S, n) ==
    IF n = 0 THEN {<<>>}
    ELSE LET shorter == SeqsUpTo(S, n - 1)
         IN  shorter \cup {Append(q, x) : q \in shorter, x \in S}

\* entry of NewServer: s := &Server{...}
NewInit(optLists) ==
    /\ opts \in optLists
    /\ idx = 1
    /\ pcNew = "loop"
    /\ s = NewServerLiteral

Init == NewInit(LifeOpts) /\ LifeInit

InitNew == NewInit(SeqsUpTo(AllOpts, MaxOpts)) /\ LifeInit

NextNew == NewServerStep \/ NewServerReturn

\* Run, the connections, a direct Shutdown and the clock
Next ==
    \/ NewServerStep
    \/ NewServerReturn
    \/ RunCall
    \/ RunServeReturn
    \/ \E c \in ConnIds : Accept(c)
    \/ \E c \in ConnIds : Finish(c)
    \/ \E c \in ConnIds : ConnClose(c)
    \/ DirectCall
    \/ ShutdownPoll("direct")
    \/ Tick

\* Run (until it serves), the connections and the two trigger functions
NextTrig ==
    \/ NewServerStep
    \/ NewServerReturn
    \/ RunCall
    \/ \E c \in ConnIds : Accept(c)
    \/ \E c \in ConnIds : Finish(c)
    \/ SigRegister
    \/ SignalDeliver
    \/ SigReceive
    \/ CtxCall
    \/ CtxCancel
    \/ CtxReceive
    \/ \E p \in Triggers : ShutdownPoll(p)

\* the lifecycle of one Server built by NewServer, shut down directly
Spec == Init /\ [][Next]_vars

\* the lifecycle of one Server with both trigger functions running
SpecTrig == Init /\ [][NextTrig]_vars

\* NewServer alone, over every option list up to MaxOpts
SpecNew == InitNew /\ [][NextNew]_vars

\* Spec with the scheduling the Go runtime gives: every goroutine that can
\* take a step takes it (the Shutdown loop, the return of Serve once its own
\* server is shut down), handlers finish, idle connections are closed, and
\* time passes. A failing Accept is the environment's and is not forced.
FairSpec ==
    /\ Spec
    /\ WF_vars(Tick)
    /\ WF_vars(ShutdownPoll("direct"))
    /\ WF_vars(RunServeReturnWith(FALSE))
    /\ \A c \in ConnIds : WF_vars(Finish(c)) /\ WF_vars(ConnClose(c))

\* ------------------------------------------------------------------ claims
\* Shutdown was invoked by p while the Run that is still the last one called
\* was serving.
InvokedOnServing(p) == sd[p].pc /= "idle" /\ sd[p].run /= 0 /\ sd[p].run = runs

Open(c) == conns[c].st \in {"active", "idle"}

\* C1: if Run is serving and Shutdown is then invoked on the same Server,
\* Run eventually returns.
C1_RunReturnsAfterShutdown ==
    (pcRun = "serving" /\ \E p \in Callers : InvokedOnServing(p))
        ~> (pcRun = "returned")

\* C2: after Shutdown has been invoked on a Server whose Run is serving, the
\* listener bound by that Run accepts no new connection.
C2_NoAcceptAfterShutdown ==
    [][(pcRun = "serving" /\ \E p \in Callers : InvokedOnServing(p))
          => \A c \in ConnIds :
                ~(conns[c].st = "none" /\ conns'[c].st = "active")]_vars

\* C3: Shutdown on a Server on which Run has never been called ends in a
\* panic; it never returns normally.
C3_ShutdownBeforeRunPanics ==
    \A p \in Callers :
        (runs = 0 /\ sd[p].pc = "returned") => sd[p].result = "panic"

\* C4: Shutdown invoked while Run serves a request that is still in flight
\* when ShutdownTimeout has elapsed does not return nil.
C4_TimeoutErrorWhenRequestOutlivesGrace ==
    \A p \in Callers :
        ( /\ sd[p].pc = "returned"
          /\ sd[p].run /= 0
          /\ now >= sd[p].deadline
          /\ \E c \in sd[p].inflight : conns[c].st = "active" )
        => sd[p].result /= "nil"

\* C5: once Shutdown has returned and ShutdownTimeout has elapsed, no
\* connection that was in flight when Shutdown was invoked is still open.
C5_NoConnectionOpenAfterDeadline ==
    \A p \in Callers :
        (sd[p].pc = "returned" /\ sd[p].run /= 0 /\ now >= sd[p].deadline)
        => \A c \in sd[p].inflight : ~Open(c)

\* C6 as stated: Shutdown invoked while Run is serving and no request is in
\* flight returns nil, and returns before the shutdown timeout has elapsed.
C6_NoErrorBeforeTimeout ==
    \A p \in Callers :
        (sd[p].pc = "returned" /\ sd[p].run /= 0 /\ sd[p].inflight = {})
        => (sd[p].result = "nil" /\ ~sd[p].late)

\* C6 as amended: Shutdown invoked while Run is serving and no request is in
\* flight returns nil; it returns before the shutdown timeout has elapsed
\* when ShutdownTimeout is positive (with a timeout of zero the deadline has
\* already passed when Shutdown returns).
C6_NoErrorAndEarlyIfPositiveTimeout ==
    \A p \in Callers :
        (sd[p].pc = "returned" /\ sd[p].run /= 0 /\ sd[p].inflight = {})
        => /\ sd[p].result = "nil"
           /\ s.ShutdownTimeout > 0 => ~sd[p].late

C6_Witness ==
    /\ sd["direct"].pc = "returned"
    /\ sd["direct"].result = "nil"
    /\ ~sd["direct"].late
    /\ sd["direct"].run /= 0
    /\ sd["direct"].inflight = {}
    /\ s.ShutdownTimeout > 0
    /\ now >= sd["direct"].deadline

\* C7: WithSigShutdown and WithContextShutdown do not invoke Shutdown before
\* their trigger has fired, are held back by nothing else once it has, invoke
\* Shutdown exactly once, and return the result of that call.
C7_TriggersWaitThenShutdownOnce ==
    /\ \A t \in Triggers :
          /\ sd[t].calls >= 1 => fired[t]
          /\ sd[t].calls <= 1
          /\ trig[t].pc \in {"idle", "waiting"} => sd[t].calls = 0
          /\ trig[t].pc = "returned" =>
                /\ sd[t].calls = 1
                /\ sd[t].pc = "returned"
                /\ trig[t].ret = sd[t].result
    /\ (trig["sig"].pc = "waiting" /\ sigChan > 0) => ENABLED SigReceive
    /\ (trig["ctx"].pc = "waiting" /\ fired["ctx"]) => ENABLED CtxReceive

C7_Witness ==
    /\ trig["sig"].pc = "returned"
    /\ trig["ctx"].pc = "returned"
    /\ pcRun = "serving"

\* what an option writes: the fields it sets, with the values it gives them
OptionWrites(o) ==
    CASE o.name = "WithPort"            -> [Port |-> o.port]
      [] o.name = "WithAddr"            -> [Addr |-> o.addr]
      [] o.name = "WithHandler"         -> [Handler |-> o.h]
      [] o.name = "WithCorsHandler"     -> [Handler |-> <<"cors", o.c>> \o o.h]
      [] o.name = "WithReadTimeout"     -> [ReadTimeout |-> o.t]
      [] o.name = "WithWriteTimeout"    -> [WriteTimeout |-> o.t]
      [] o.name = "WithShutdownTimeout" -> [ShutdownTimeout |-> o.t]
      [] o.name = "WithTLS"             -> [CertFile |-> o.certFile,
                                            KeyFile  |-> o.keyFile]

ClaimedDefaults ==
    [Port |-> 8080, Addr |-> "", Handler |-> <<>>, ReadTimeout |-> 15,
     WriteTimeout |-> 15, ShutdownTimeout |-> 15, CertFile |-> "", KeyFile |-> ""]

LastWrite(f) ==
    LET I == {i \in 1 .. Len(opts) : f \in DOMAIN OptionWrites(opts[i])}
    IN  IF I = {} THEN ClaimedDefaults[f]
        ELSE OptionWrites(opts[CHOOSE i \in I : \A j \in I : j <= i])[f]

C9_TLSIffBothPaths ==
    pcRun = "serving" =>
        /\ srvs[runSrv].transport \in {"tls", "plain"}
        /\ srvs[runSrv].transport = "tls" <=> (s.CertFile /= "" /\ s.KeyFile /= "")

C9_Witness ==
    /\ pcRun = "serving"
    /\ s.CertFile /= ""
    /\ s.KeyFile = ""
    /\ srvs[runSrv].transport = "plain"

\* C10: once a Server has reached Stopped (its Run has returned after a
\* shutdown), no later operation makes it listen or serve again.
C10_NoServingAfterStopped ==
    [][(pcRun = "returned" /\ \E p \in Callers : InvokedOnServing(p))
          => pcRun' /= "serving"]_vars

=============================================================================
